---- MODULE Spec2Model ----
(***************************************************************************)
(* A model of Phaser.Ellipse (src/geom/Ellipse.js): the ellipse record,    *)
(* its mutators and accessors, and the static helpers contains and         *)
(* intersectsLine.                                                         *)
(*                                                                         *)
(* Numbers.  The fields of an ellipse are integers.  The geometry routines *)
(* compute on exact values of the form r + i*sqrt(s) with r, i, s rational *)
(* (one square root is taken per computation, so every value of a          *)
(* computation shares s), or on NaN, which stands for every non-finite     *)
(* IEEE value: NaN propagates through arithmetic and every comparison      *)
(* with it is false.  Rounding of finite doubles is not modelled.          *)
(***************************************************************************)
EXTENDS Integers, Sequences, FiniteSets

VARIABLES heap, call

vars == <<heap, call>>

(***************************************************************************)
(* Bounds of the model.                                                    *)
(***************************************************************************)
\* One ellipse: constructor, setTo and setter arguments range over -1..MaxVal.
MaxVal == 1
\* Two ellipses: constructor, setTo and setter arguments range over 0..MaxField.
MaxField == 1
\* Geometry: the width and height of the ellipse range over -1..MaxDim.
MaxDim == 2
\* Geometry: line endpoints have x in 0..MaxLine and y in -1..1.
MaxLine == 2

(***************************************************************************)
(* Exact rational arithmetic: <<n, d>> with d > 0 in lowest terms.         *)
(***************************************************************************)
RECURSIVE Gcd(_, _)
Gcd(a, b) == IF b = 0 THEN a ELSE Gcd(b, a % b)

Abs(i) == IF i < 0 THEN -i ELSE i

Sgn(i) == IF i < 0 THEN -1 ELSE IF i = 0 THEN 0 ELSE 1

Rat(n, d) ==
    LET g == Gcd(Abs(n), Abs(d))
        s == IF d < 0 THEN -1 ELSE 1
    IN  <<(s * n) \div g, (s * d) \div g>>

QAdd(p, q) == Rat(p[1] * q[2] + q[1] * p[2], p[2] * q[2])
QSub(p, q) == Rat(p[1] * q[2] - q[1] * p[2], p[2] * q[2])
QMul(p, q) == Rat(p[1] * q[1], p[2] * q[2])
QInv(p) == Rat(p[2], p[1])
QSgn(p) == Sgn(p[1])
QZero == <<0, 1>>

\* The integer square root, and whether a rational is the square of one.
ISqrt(n) == CHOOSE k \in 0..n : k * k <= n /\ (k + 1) * (k + 1) > n
IsSquare(n) == ISqrt(n) * ISqrt(n) = n
QIsSquare(p) == p[1] >= 0 /\ IsSquare(p[1]) /\ IsSquare(p[2])

(***************************************************************************)
(* JavaScript numbers as the geometry routines use them: NaN, or the exact *)
(* value r + i*sqrt(s).                                                    *)
(***************************************************************************)
NaN == [nan |-> TRUE, r |-> QZero, i |-> QZero, s |-> QZero]

\* The finite value r + i*sqrt(s), in canonical form.
Fin(r, i, s) ==
    IF i = QZero \/ s = QZero
    THEN [nan |-> FALSE, r |-> r, i |-> QZero, s |-> QZero]
    ELSE IF QIsSquare(s)
    THEN [nan |-> FALSE,
          r |-> QAdd(r, QMul(i, <<ISqrt(s[1]), ISqrt(s[2])>>)),
          i |-> QZero, s |-> QZero]
    ELSE [nan |-> FALSE, r |-> r, i |-> i, s |-> s]

Num(n) == Fin(<<n, 1>>, QZero, QZero)
Frac(n, d) == Fin(Rat(n, d), QZero, QZero)

\* The radicand two operands share.
Rad(u, v) == IF u.i # QZero THEN u.s ELSE v.s

NAdd(u, v) ==
    IF u.nan \/ v.nan THEN NaN
    ELSE Fin(QAdd(u.r, v.r), QAdd(u.i, v.i), Rad(u, v))

NNeg(u) == IF u.nan THEN NaN ELSE Fin(QSub(QZero, u.r), QSub(QZero, u.i), u.s)

NSub(u, v) == NAdd(u, NNeg(v))

NMul(u, v) ==
    IF u.nan \/ v.nan THEN NaN
    ELSE LET s == Rad(u, v)
         IN  Fin(QAdd(QMul(u.r, v.r), QMul(QMul(u.i, v.i), s)),
                 QAdd(QMul(u.r, v.i), QMul(u.i, v.r)),
                 s)

\* Division by a rational.  x / 0 is NaN or an infinity: non-finite.
NDiv(u, v) ==
    IF u.nan \/ v.nan \/ v.r = QZero THEN NaN
    ELSE Fin(QMul(u.r, QInv(v.r)), QMul(u.i, QInv(v.r)), u.s)

\* Math.sqrt of a rational: NaN below zero.
NSqrt(u) ==
    IF u.nan \/ QSgn(u.r) < 0 THEN NaN
    ELSE Fin(QZero, <<1, 1>>, u.r)

\* The sign of r + i*sqrt(s): -1, 0 or 1.
NSign(u) ==
    LET sr == QSgn(u.r)
        si == QSgn(u.i)
        d  == QSgn(QSub(QMul(u.r, u.r), QMul(QMul(u.i, u.i), u.s)))
    IN  IF si = 0 THEN sr
        ELSE IF sr = 0 \/ sr = si THEN si
        ELSE IF d > 0 THEN sr
        ELSE IF d < 0 THEN si
        ELSE 0

\* Math.abs
NAbs(u) == IF u.nan THEN NaN ELSE IF NSign(u) < 0 THEN NNeg(u) ELSE u

\* The comparisons: false when an operand is NaN.
NLess(u, v) == ~u.nan /\ ~v.nan /\ NSign(NSub(u, v)) < 0
NLeq(u, v) == ~u.nan /\ ~v.nan /\ NSign(NSub(u, v)) <= 0
NGeq(u, v) == NLeq(v, u)

NMin(u, v) == IF NLess(v, u) THEN v ELSE u
NMax(u, v) == IF NLess(u, v) THEN v ELSE u

(***************************************************************************)
(* Phaser.Ellipse: the record and its prototype methods.                   *)
(***************************************************************************)
\* `v || 0`: a falsy number (0, NaN, undefined) becomes 0.
OrZero(v) == IF v = 0 THEN 0 ELSE v

\* new Phaser.Ellipse(x, y, width, height)
Ellipse(x, y, width, height) ==
    [x |-> OrZero(x), y |-> OrZero(y),
     width |-> OrZero(width), height |-> OrZero(height)]

setTo(this, x, y, width, height) ==
    [this EXCEPT !.x = x, !.y = y, !.width = width, !.height = height]

\* new Phaser.Rectangle(x, y, width, height), as the record of its four fields
Rectangle(x, y, width, height) ==
    [x |-> x, y |-> y, width |-> width, height |-> height]

\* Mutant: the rectangle at (x, y), without the offsets.
getBounds_noOffset(this) ==
    Rectangle(this.x, this.y, this.width, this.height)

getBounds(this) ==
    Rectangle(this.x - this.width, this.y - this.height, this.width, this.height)

copyFrom(this, source) ==
    setTo(this, source.x, source.y, source.width, source.height)

copyTo(this, dest) ==
    [dest EXCEPT !.x = this.x, !.y = this.y,
                 !.width = this.width, !.height = this.height]

\* The accessor properties.
left_get(this) == this.x
left_set(this, value) == [this EXCEPT !.x = value]

right_get(this) == this.x + this.width
\* Mutant: no clamp when the new edge crosses the left edge.
right_set_noClamp(this, value) == [this EXCEPT !.width = value - this.x]

right_set(this, value) ==
    IF value < this.x
    THEN [this EXCEPT !.width = 0]
    ELSE [this EXCEPT !.width = value - this.x]

top_get(this) == this.y
top_set(this, value) == [this EXCEPT !.y = value]

bottom_get(this) == this.y + this.height
\* Mutant: the height measured from x.
bottom_set_fromX(this, value) ==
    IF value < this.y
    THEN [this EXCEPT !.height = 0]
    ELSE [this EXCEPT !.height = value - this.x]

bottom_set(this, value) ==
    IF value < this.y
    THEN [this EXCEPT !.height = 0]
    ELSE [this EXCEPT !.height = value - this.y]

\* Mutant: the comparison of the doc comment, <= 0.
empty_get_lessEqual(this) == this.width <= 0 \/ this.height <= 0

empty_get(this) == this.width = 0 \/ this.height = 0
empty_set(this, value) ==
    IF value = TRUE THEN setTo(this, 0, 0, 0, 0) ELSE this

(***************************************************************************)
(* Phaser.Ellipse.contains and Phaser.Ellipse.prototype.contains           *)
(***************************************************************************)
Half == Frac(1, 2)
Quarter == Frac(1, 4)

\* Mutant: the coordinates are not shifted by 0.5.
contains_noShift(a, x, y) ==
    IF a.width <= 0 \/ a.height <= 0
    THEN FALSE
    ELSE LET normx == NDiv(NSub(x, Num(a.x)), Num(a.width))
             normy == NDiv(NSub(y, Num(a.y)), Num(a.height))
         IN  NLess(NAdd(NMul(normx, normx), NMul(normy, normy)), Quarter)

\* Mutant: the guard tests the width twice and never the height.
contains_widthOnly(a, x, y) ==
    IF a.width <= 0 \/ a.width <= 0
    THEN FALSE
    ELSE LET normx == NSub(NDiv(NSub(x, Num(a.x)), Num(a.width)), Half)
             normy == NSub(NDiv(NSub(y, Num(a.y)), Num(a.height)), Half)
         IN  NLess(NAdd(NMul(normx, normx), NMul(normy, normy)), Quarter)

contains(a, x, y) ==
    IF a.width <= 0 \/ a.height <= 0
    THEN FALSE
    ELSE LET normx == NSub(NDiv(NSub(x, Num(a.x)), Num(a.width)), Half)
             normy == NSub(NDiv(NSub(y, Num(a.y)), Num(a.height)), Half)
         IN  NLess(NAdd(NMul(normx, normx), NMul(normy, normy)), Quarter)

proto_contains(this, x, y) == contains(this, x, y)

(***************************************************************************)
(* Phaser.Ellipse.prototype.random.  The first draw U1 enters only through *)
(* cos and sin of p = U1 * 2 * PI, so it is given as the pair              *)
(* <<cos p, sin p>> of a point of the unit circle; the second draw U2 is a *)
(* rational of [0, 1).                                                     *)
(***************************************************************************)
Point(x, y) == [x |-> x, y |-> y]

random(this, u1, u2) ==
    LET r  == u2
        x1 == NMul(NSqrt(r), u1[1])
        y1 == NMul(NSqrt(r), u1[2])
    IN  Point(NAdd(Num(this.x), NDiv(NMul(x1, Num(this.width)), Num(2))),
              NAdd(Num(this.y), NDiv(NMul(y1, Num(this.height)), Num(2))))

(***************************************************************************)
(* Phaser.Line.pointOnSegment, with Phaser.Line.pointOnLine and            *)
(* Phaser.Math.fuzzyEqual: the segment test intersectsLine calls.          *)
(***************************************************************************)
fuzzyEqual(a, b, epsilon) == NLess(NAbs(NSub(a, b)), epsilon)

pointOnLine(l, x, y, epsilon) ==
    fuzzyEqual(NMul(NSub(x, Num(l.start.x)), Num(l.end.y - l.start.y)),
               NMul(Num(l.end.x - l.start.x), NSub(y, Num(l.start.y))),
               epsilon)

pointOnSegment(l, x, y, epsilon) ==
    LET xMin == NMin(Num(l.start.x), Num(l.end.x))
        xMax == NMax(Num(l.start.x), Num(l.end.x))
        yMin == NMin(Num(l.start.y), Num(l.end.y))
        yMax == NMax(Num(l.start.y), Num(l.end.y))
    IN  /\ pointOnLine(l, x, y, epsilon)
        /\ NGeq(x, xMin) /\ NLeq(x, xMax)
        /\ NGeq(y, yMin) /\ NLeq(y, yMax)

(***************************************************************************)
(* Phaser.Ellipse.intersectsLine                                           *)
(***************************************************************************)
\* The tolerance 0.01 of the two pointOnSegment calls.
Tolerance == Frac(1, 100)

\* m = (l.end.y - l.start.y) / (l.end.x - l.start.x).  A vertical line makes m
\* an infinity or NaN, and then every value computed from it is NaN (the
\* radicand is Infinity - Infinity or holds 0 * Infinity).
Slope(l) == NDiv(Num(l.end.y - l.start.y), Num(l.end.x - l.start.x))

\* n = l.end.y - (m * l.end.x)
Intercept(l, m) == NSub(Num(l.end.y), NMul(m, Num(l.end.x)))

\* (a * a) * (m * m) + (b * b) - (del * del) - (k * k) + (2 * del * k)
Radicand(a, b, m, del, k) ==
    NAdd(NSub(NSub(NAdd(NMul(NMul(a, a), NMul(m, m)), NMul(b, b)),
                   NMul(del, del)),
              NMul(k, k)),
         NMul(NMul(Num(2), del), k))

\* h * (b * b) - m * (a * a) * (n - k)
Lead(h, k, m, n, a, b) ==
    NSub(NMul(h, NMul(b, b)), NMul(NMul(m, NMul(a, a)), NSub(n, k)))

\* (a * a) * (m * m) + (b * b).  It is zero only under a zero or NaN numerator,
\* where the quotient is NaN.
Denominator(a, b, m) == NAdd(NMul(NMul(a, a), NMul(m, m)), NMul(b, b))

\* p0 = (x0, m * x0 + n) and p1 = (x1, m * x1 + n)
PointsOn(m, n, x0, x1) ==
    <<Point(x0, NAdd(NMul(m, x0), n)), Point(x1, NAdd(NMul(m, x1), n))>>

\* x0 the '+' root and x1 the '-' root
Roots(m, n, lead, root, den) ==
    PointsOn(m, n, NDiv(NAdd(lead, root), den), NDiv(NSub(lead, root), den))

\* del = n + m * h, and the two roots
Solve(h, k, m, n, a, b) ==
    Roots(m, n, Lead(h, k, m, n, a, b),
          NMul(NMul(a, b), NSqrt(Radicand(a, b, m, NAdd(n, NMul(m, h)), k))),
          Denominator(a, b, m))

SolveFor(l, h, k, m, a, b) == Solve(h, k, m, Intercept(l, m), a, b)

\* The two candidate points <<p0, p1>> of intersectsLine(e, l, _).
Candidates(e, l) ==
    SolveFor(l, Num(e.x), Num(e.y), Slope(l),
             NDiv(Num(e.width), Num(2)), NDiv(Num(e.height), Num(2)))

\* Mutant: the branch of p1 alone returns p0.
Accepted_p0ForP1(p0, p1, p0Exists, p1Exists, returnPoints) ==
    IF p0Exists /\ p1Exists
    THEN IF returnPoints THEN <<p0, p1>> ELSE TRUE
    ELSE IF p0Exists
    THEN IF returnPoints THEN <<p0>> ELSE TRUE
    ELSE IF p1Exists
    THEN IF returnPoints THEN <<p0>> ELSE TRUE
    ELSE IF returnPoints THEN <<>> ELSE FALSE

\* The branches on p0Exists and p1Exists.
Accepted(p0, p1, p0Exists, p1Exists, returnPoints) ==
    IF p0Exists /\ p1Exists
    THEN IF returnPoints THEN <<p0, p1>> ELSE TRUE
    ELSE IF p0Exists
    THEN IF returnPoints THEN <<p0>> ELSE TRUE
    ELSE IF p1Exists
    THEN IF returnPoints THEN <<p1>> ELSE TRUE
    ELSE IF returnPoints THEN <<>> ELSE FALSE

OnSegment(l, p) == pointOnSegment(l, p.x, p.y, Tolerance)

Intersections(l, p0, p1, returnPoints) ==
    Accepted(p0, p1, OnSegment(l, p0), OnSegment(l, p1), returnPoints)

intersectsLine(e, l, returnPoints) ==
    Intersections(l, Candidates(e, l)[1], Candidates(e, l)[2], returnPoints)

(***************************************************************************)
(* The state: the ellipse objects on the heap, and the last call made (or, *)
(* where done is FALSE, the call about to be made).                        *)
(***************************************************************************)
Obj == {"a", "b"}
Undefined == "undefined"

Put(o, e) == [p \in DOMAIN heap \cup {o} |-> IF p = o THEN e ELSE heap[p]]

Called(op, this, arg, ret) ==
    [op |-> op, this |-> this, arg |-> arg, ret |-> ret, done |-> TRUE]

Request(op, this, arg) ==
    [op |-> op, this |-> this, arg |-> arg, ret |-> Undefined, done |-> FALSE]

(***************************************************************************)
(* The mutators.                                                           *)
(***************************************************************************)
SetTo(o, x, y, width, height) ==
    /\ o \in DOMAIN heap
    /\ heap' = Put(o, setTo(heap[o], x, y, width, height))
    /\ call' = Called("setTo", o, Undefined, o)

\* source is any record with the four fields.
CopyFrom(o, source) ==
    /\ o \in DOMAIN heap
    /\ heap' = Put(o, copyFrom(heap[o], source))
    /\ call' = Called("copyFrom", o, Undefined, o)

CopyTo(o, dest) ==
    /\ o \in DOMAIN heap /\ dest \in DOMAIN heap
    /\ heap' = Put(dest, copyTo(heap[o], heap[dest]))
    /\ call' = Called("copyTo", o, dest, dest)

\* Mutant: without an output, clone returns the ellipse itself.
Clone_returnsThis(o, output) ==
    /\ o \in DOMAIN heap
    /\ IF output = Undefined
       THEN /\ heap' = heap
            /\ call' = Called("clone", o, Undefined, o)
       ELSE /\ output \in DOMAIN heap
            /\ heap' = Put(output, setTo(heap[output], heap[o].x, heap[o].y,
                                         heap[o].width, heap[o].height))
            /\ call' = Called("clone", o, output, output)

\* Without an output the new object takes a free cell of the heap.
Clone(o, output) ==
    /\ o \in DOMAIN heap
    /\ IF output = Undefined
       THEN \E f \in Obj \ DOMAIN heap :
               /\ heap' = Put(f, Ellipse(heap[o].x, heap[o].y,
                                         heap[o].width, heap[o].height))
               /\ call' = Called("clone", o, Undefined, f)
       ELSE /\ output \in DOMAIN heap
            /\ heap' = Put(output, setTo(heap[output], heap[o].x, heap[o].y,
                                         heap[o].width, heap[o].height))
            /\ call' = Called("clone", o, output, output)

SetLeft(o, value) ==
    /\ o \in DOMAIN heap
    /\ heap' = Put(o, left_set(heap[o], value))
    /\ call' = Called("left=", o, value, Undefined)

SetRight(o, value) ==
    /\ o \in DOMAIN heap
    /\ heap' = Put(o, right_set(heap[o], value))
    /\ call' = Called("right=", o, value, Undefined)

SetTop(o, value) ==
    /\ o \in DOMAIN heap
    /\ heap' = Put(o, top_set(heap[o], value))
    /\ call' = Called("top=", o, value, Undefined)

SetBottom(o, value) ==
    /\ o \in DOMAIN heap
    /\ heap' = Put(o, bottom_set(heap[o], value))
    /\ call' = Called("bottom=", o, value, Undefined)

SetEmpty(o, value) ==
    /\ o \in DOMAIN heap
    /\ heap' = Put(o, empty_set(heap[o], value))
    /\ call' = Called("empty=", o, value, Undefined)

(***************************************************************************)
(* The reads.                                                              *)
(***************************************************************************)
GetLeft(o) ==
    /\ o \in DOMAIN heap
    /\ call' = Called("left", o, Undefined, left_get(heap[o]))
    /\ UNCHANGED heap

GetRight(o) ==
    /\ o \in DOMAIN heap
    /\ call' = Called("right", o, Undefined, right_get(heap[o]))
    /\ UNCHANGED heap

GetTop(o) ==
    /\ o \in DOMAIN heap
    /\ call' = Called("top", o, Undefined, top_get(heap[o]))
    /\ UNCHANGED heap

GetBottom(o) ==
    /\ o \in DOMAIN heap
    /\ call' = Called("bottom", o, Undefined, bottom_get(heap[o]))
    /\ UNCHANGED heap

GetEmpty(o) ==
    /\ o \in DOMAIN heap
    /\ call' = Called("empty", o, Undefined, empty_get(heap[o]))
    /\ UNCHANGED heap

GetBounds(o) ==
    /\ o \in DOMAIN heap
    /\ call' = Called("getBounds", o, Undefined, getBounds(heap[o]))
    /\ UNCHANGED heap

(***************************************************************************)
(* Spec: one ellipse, every mutator and read on it.                        *)
(***************************************************************************)
Vals == -1..MaxVal

Records(S) == {Rectangle(x, y, width, height) : x \in S, y \in S, width \in S, height \in S}

Init ==
    \E x, y, width, height \in Vals :
        /\ heap = [o \in {"a"} |-> Ellipse(x, y, width, height)]
        /\ call = Called("new", "a", Undefined, "a")

Next ==
    \/ \E o \in DOMAIN heap, x, y, width, height \in Vals : SetTo(o, x, y, width, height)
    \/ \E o \in DOMAIN heap, source \in Records(Vals) : CopyFrom(o, source)
    \/ \E o, dest \in DOMAIN heap : CopyTo(o, dest)
    \/ \E o, output \in DOMAIN heap : Clone(o, output)
    \/ \E o \in DOMAIN heap, value \in Vals : SetLeft(o, value)
    \/ \E o \in DOMAIN heap, value \in Vals : SetRight(o, value)
    \/ \E o \in DOMAIN heap, value \in Vals : SetTop(o, value)
    \/ \E o \in DOMAIN heap, value \in Vals : SetBottom(o, value)
    \/ \E o \in DOMAIN heap, value \in BOOLEAN : SetEmpty(o, value)
    \/ \E o \in DOMAIN heap : GetLeft(o)
    \/ \E o \in DOMAIN heap : GetRight(o)
    \/ \E o \in DOMAIN heap : GetTop(o)
    \/ \E o \in DOMAIN heap : GetBottom(o)
    \/ \E o \in DOMAIN heap : GetEmpty(o)
    \/ \E o \in DOMAIN heap : GetBounds(o)

Spec == Init /\ [][Next]_vars

(***************************************************************************)
(* SpecEdges: one ellipse of width >= 0 and height >= 0, and only the      *)
(* assignments to left, right, top, bottom and empty.                      *)
(***************************************************************************)
InitEdges ==
    \E x, y \in Vals, width, height \in 0..MaxVal :
        /\ heap = [o \in {"a"} |-> Ellipse(x, y, width, height)]
        /\ call = Called("new", "a", Undefined, "a")

NextEdges ==
    \/ \E o \in DOMAIN heap, value \in Vals : SetLeft(o, value)
    \/ \E o \in DOMAIN heap, value \in Vals : SetRight(o, value)
    \/ \E o \in DOMAIN heap, value \in Vals : SetTop(o, value)
    \/ \E o \in DOMAIN heap, value \in Vals : SetBottom(o, value)
    \/ \E o \in DOMAIN heap, value \in BOOLEAN : SetEmpty(o, value)

SpecEdges == InitEdges /\ [][NextEdges]_vars

(***************************************************************************)
(* SpecClone: the ellipse a and its clone b: clone, with and without an    *)
(* output, and setTo, copyFrom and the assignments on each of the two.     *)
(* setTo is called with width = height = d; right= and bottom= make the    *)
(* two differ.                                                             *)
(***************************************************************************)
Fields == 0..MaxField

InitClone ==
    \E x, y, width, height \in Fields :
        /\ heap = [o \in {"a"} |-> Ellipse(x, y, width, height)]
        /\ call = Called("new", "a", Undefined, "a")

NextClone ==
    \/ \E o \in Obj, x, y, d \in Fields : SetTo(o, x, y, d, d)
    \/ \E o \in Obj, s \in DOMAIN heap : CopyFrom(o, heap[s])
    \/ \E o \in Obj, output \in Obj \cup {Undefined} : Clone(o, output)
    \/ \E o \in Obj, value \in Fields : SetLeft(o, value)
    \/ \E o \in Obj, value \in Fields : SetRight(o, value)
    \/ \E o \in Obj, value \in Fields : SetTop(o, value)
    \/ \E o \in Obj, value \in Fields : SetBottom(o, value)
    \/ \E o \in Obj, value \in BOOLEAN : SetEmpty(o, value)

SpecClone == InitClone /\ [][NextClone]_vars

(***************************************************************************)
(* SpecGeom: contains, random and intersectsLine, each applied once to an  *)
(* ellipse and arguments drawn from the input sets.                        *)
(***************************************************************************)
GeomEllipses ==
    {Ellipse(x, y, width, height) :
        x \in {0, 1}, y \in {0, 1}, width \in -1..MaxDim, height \in -1..MaxDim}

\* Query points: both coordinates multiples of 1/2.
PointCoords == {Frac(k, 2) : k \in -2..(2 + 2 * MaxDim)}

\* Points of the unit circle with rational coordinates: <<cos p, sin p>>.
UnitCircle ==
    {<<Frac(c[1], 5), Frac(c[2], 5)>> :
        c \in {<<5, 0>>, <<4, 3>>, <<3, 4>>, <<0, 5>>, <<-3, 4>>, <<-4, 3>>,
               <<-5, 0>>, <<-4, -3>>, <<-3, -4>>, <<0, -5>>, <<3, -4>>, <<4, -3>>}}

\* Draws of Math.random(): 0, 1/4, 1/2, 3/4.
Draws == {Frac(k, 4) : k \in 0..3}

Lines ==
    {[start |-> Point(sx, sy), end |-> Point(ex, ey)] :
        sx \in 0..MaxLine, ex \in 0..MaxLine, sy \in -1..1, ey \in -1..1}

InitGeom ==
    \E e \in GeomEllipses :
        /\ heap = [o \in {"a"} |-> e]
        /\ \/ \E x, y \in PointCoords : call = Request("contains", "a", <<x, y>>)
           \/ \E u1 \in UnitCircle, u2 \in Draws :
                  call = Request("random", "a", <<u1, u2>>)
           \/ \E l \in Lines, returnPoints \in BOOLEAN :
                  call = Request("intersectsLine", "a", <<l, returnPoints>>)

Contains ==
    /\ call.op = "contains" /\ ~call.done
    /\ call' = [call EXCEPT
                  !.ret = proto_contains(heap[call.this], call.arg[1], call.arg[2]),
                  !.done = TRUE]
    /\ UNCHANGED heap

\* The point is returned in out, given or new.
Random ==
    /\ call.op = "random" /\ ~call.done
    /\ call' = [call EXCEPT
                  !.ret = random(heap[call.this], call.arg[1], call.arg[2]),
                  !.done = TRUE]
    /\ UNCHANGED heap

IntersectsLine ==
    /\ call.op = "intersectsLine" /\ ~call.done
    /\ call' = [call EXCEPT
                  !.ret = intersectsLine(heap[call.this], call.arg[1], call.arg[2]),
                  !.done = TRUE]
    /\ UNCHANGED heap

NextGeom == Contains \/ Random \/ IntersectsLine

SpecGeom == InitGeom /\ [][NextGeom]_vars

(***************************************************************************)
(* The claims.                                                             *)
(***************************************************************************)
\* The ellipse the last call was made on.
This == heap[call.this]

NonDegenerate(e) == e.width > 0 /\ e.height > 0

\* The centre of the framing rectangle: (x + width / 2, y + height / 2).
FrameCentre(e) ==
    <<NAdd(Num(e.x), NDiv(Num(e.width), Num(2))),
      NAdd(Num(e.y), NDiv(Num(e.height), Num(2)))>>

ContainsCalled == call.op = "contains" /\ call.done

\* C1 as stated: for every ellipse with width > 0 and height > 0,
\* contains(e.x, e.y) and Ellipse.contains(e, e.x, e.y) return true.
C1_PointXYContained ==
    (ContainsCalled /\ NonDegenerate(This)
        /\ call.arg = <<Num(This.x), Num(This.y)>>)
    => (call.ret = TRUE /\ contains(This, Num(This.x), Num(This.y)))

\* C1 as amended: for every ellipse with width > 0 and height > 0, the centre
\* of the framing rectangle, (x + width / 2, y + height / 2), is contained:
\* contains and the static Ellipse.contains return true there.
C1_FrameCentreContained ==
    (ContainsCalled /\ NonDegenerate(This) /\ call.arg = FrameCentre(This))
    => (call.ret = TRUE
        /\ contains(This, FrameCentre(This)[1], FrameCentre(This)[2]))

C1_Witness ==
    /\ ContainsCalled /\ NonDegenerate(This)
    /\ This.width # This.height /\ This.x # 0
    /\ call.arg = FrameCentre(This)
    /\ call.ret = TRUE

\* The point lies exactly on the boundary contains tests against.
OnBoundary(a, x, y) ==
    LET normx == NSub(NDiv(NSub(x, Num(a.x)), Num(a.width)), Half)
        normy == NSub(NDiv(NSub(y, Num(a.y)), Num(a.height)), Half)
    IN  NAdd(NMul(normx, normx), NMul(normy, normy)) = Quarter

\* C2: for every ellipse with width > 0 and height > 0 and every pair of
\* draws, the point random returns satisfies contains for the same ellipse,
\* unless it lies exactly on the boundary.
C2_RandomContained ==
    (call.op = "random" /\ call.done /\ NonDegenerate(This))
    => (\/ contains(This, call.ret.x, call.ret.y)
        \/ OnBoundary(This, call.ret.x, call.ret.y))

LineCalled == call.op = "intersectsLine" /\ call.done

\* The candidates of <<p0, p1>>, in that order, that pass
\* l.pointOnSegment(px, py, 0.01).
OnSegmentOf(e, l) ==
    LET c == Candidates(e, l)
        Passes(p) == pointOnSegment(l, p.x, p.y, Tolerance)
    IN  SelectSeq(c, Passes)

\* C3: with returnPoints, intersectsLine returns exactly the candidates of
\* [p0, p1], in that order, that pass l.pointOnSegment(px, py, 0.01); without,
\* it returns true iff at least one candidate passes, which is iff the result
\* with returnPoints for the same ellipse and line is not empty.
C3_ReturnContract ==
    LineCalled =>
        LET l == call.arg[1]
            returnPoints == call.arg[2]
        IN  /\ returnPoints => call.ret = OnSegmentOf(This, l)
            /\ ~returnPoints =>
                  /\ call.ret = (Len(OnSegmentOf(This, l)) > 0)
                  /\ call.ret = (Len(intersectsLine(This, l, TRUE)) > 0)

\* Only p1 is on the segment, and it is what is returned.
C3_Witness ==
    /\ LineCalled /\ call.arg[2] /\ NonDegenerate(This)
    /\ call.ret = <<Candidates(This, call.arg[1])[2]>>
    /\ ~Candidates(This, call.arg[1])[1].x.nan
    /\ Candidates(This, call.arg[1])[1] # Candidates(This, call.arg[1])[2]

\* C4: for every ellipse with width <= 0 or height <= 0 and every query
\* point, contains and the static Ellipse.contains return false.
C4_DegenerateContainsNothing ==
    (ContainsCalled /\ ~NonDegenerate(This))
    => (call.ret = FALSE /\ ~contains(This, call.arg[1], call.arg[2]))

\* A negative height, at the point where the normalised coordinates vanish.
C4_Witness ==
    /\ ContainsCalled
    /\ This.width > 0 /\ This.height < 0
    /\ call.arg = FrameCentre(This)
    /\ call.ret = FALSE

\* One assignment to right or bottom, seen from the state before it.
C5_Step ==
    LET o == call'.this
        value == call'.arg
    IN  /\ call'.op = "right=" =>
              /\ value >= heap[o].x => right_get(heap'[o]) = value
              /\ value < heap[o].x =>
                    heap'[o].width = 0 /\ right_get(heap'[o]) = heap[o].x
              /\ heap'[o].x = heap[o].x
              /\ heap'[o].y = heap[o].y
              /\ heap'[o].height = heap[o].height
        /\ call'.op = "bottom=" =>
              /\ value >= heap[o].y => bottom_get(heap'[o]) = value
              /\ value < heap[o].y =>
                    heap'[o].height = 0 /\ bottom_get(heap'[o]) = heap[o].y
              /\ heap'[o].y = heap[o].y
              /\ heap'[o].x = heap[o].x
              /\ heap'[o].width = heap[o].width

\* C5: after right = v, right reads v when v >= x; when v < x, width is 0 and
\* right reads x; x, y and height are unchanged.  The same for bottom, with y
\* and height in place of x and width.
C5_RightBottomAssignment == [][C5_Step]_vars

\* right was assigned a value left of x, and the width is clamped.
C5_Witness ==
    /\ call.op = "right=" /\ call.arg < This.x
    /\ This.width = 0 /\ right_get(This) = This.x
    /\ This.height # 0

Mutators ==
    {"setTo", "copyFrom", "clone", "left=", "right=", "top=", "bottom=", "empty="}

Written(c) == IF c.op = "clone" THEN c.ret ELSE c.this

SameFields(e, f) ==
    e.x = f.x /\ e.y = f.y /\ e.width = f.width /\ e.height = f.height

\* What C7 says of one call of clone, but for the clone being another object.
C7_CloneCopies ==
    call'.op = "clone" =>
        LET o == call'.this
            r == call'.ret
        IN  /\ r \in DOMAIN heap'
            /\ SameFields(heap'[r], heap[o])
            /\ call'.arg = Undefined => r \notin DOMAIN heap
            /\ call'.arg # Undefined => r = call'.arg
            /\ heap'[o] = heap[o]

\* A mutation of one ellipse leaves every other ellipse unchanged.
C7_OthersUnchanged ==
    call'.op \in Mutators =>
        \A p \in DOMAIN heap : p # Written(call') => heap'[p] = heap[p]

\* C7 as stated: clone returns a value-equal ellipse, new or the output
\* given, and leaves the original unchanged; the clone is an object of its
\* own, so that no later mutation of the clone changes the original, nor the
\* reverse.
C7_CloneIndependent ==
    [][/\ C7_CloneCopies
       /\ C7_OthersUnchanged
       /\ call'.op = "clone" => call'.ret # call'.this]_vars

\* C7 as amended: as stated, provided the output given is not the ellipse
\* itself; e.clone(e) returns e.
C7_CloneIndependentOfOther ==
    [][/\ C7_CloneCopies
       /\ C7_OthersUnchanged
       /\ (call'.op = "clone" /\ call'.arg # call'.this) =>
             call'.ret # call'.this]_vars

\* clone() has made b from a, an ellipse that is not all zero.
C7_Witness ==
    /\ call.op = "clone" /\ call.arg = Undefined
    /\ call.this = "a" /\ call.ret = "b"
    /\ SameFields(heap["b"], heap["a"])
    /\ heap["a"].x # 0 /\ heap["a"].width # 0

\* C8: empty reads true if the width or the height is less than or equal to
\* 0, and false otherwise.
C8_EmptyWhenNotPositive ==
    call.op = "empty" => call.ret = (This.width <= 0 \/ This.height <= 0)

\* One call of getBounds, seen from the state before it.
C9_Step ==
    call'.op = "getBounds" =>
        LET e == heap[call'.this]
        IN  /\ call'.ret = [x |-> e.x - e.width, y |-> e.y - e.height,
                            width |-> e.width, height |-> e.height]
            /\ heap' = heap

C10_Step ==
    LET o == call'.this
    IN  /\ heap'[o].width >= 0 /\ heap'[o].height >= 0
        /\ right_get(heap'[o]) >= left_get(heap'[o])
        /\ bottom_get(heap'[o]) >= top_get(heap'[o])
        /\ call'.op = "left=" =>
              heap'[o] = [heap[o] EXCEPT !.x = heap'[o].x]
        /\ call'.op = "top=" =>
              heap'[o] = [heap[o] EXCEPT !.y = heap'[o].y]
        /\ call'.op = "right=" =>
              heap'[o] = [heap[o] EXCEPT !.width = heap'[o].width]
        /\ call'.op = "bottom=" =>
              heap'[o] = [heap[o] EXCEPT !.height = heap'[o].height]

\* C10: from width >= 0 and height >= 0, every assignment to left, right,
\* top, bottom and empty keeps width >= 0 and height >= 0, hence
\* right >= left and bottom >= top; left and top change only x and y, right
\* and bottom only width and height.
C10_EdgesOrdered == [][C10_Step]_vars

\* bottom was assigned a value above y, and the height is clamped.
C10_Witness ==
    /\ call.op = "bottom=" /\ call.arg < This.y
    /\ This.height = 0 /\ bottom_get(This) = top_get(This)

====
